---- MODULE Spec2Model ----
(***************************************************************************)
(* A model of gemini-cli: the embedding blob codec (encodeEmbedding,       *)
(* decodeEmbedding), the `embed --db` pipeline (embedModeDB), the prompt   *)
(* commands (runRootCmd, runPromptCmd, getAPIKey) and the template command *)
(* (init, runTemplateCmd, addTemplate).                                    *)
(*                                                                         *)
(* Strings are sequences of one-character strings.  A float32 component is *)
(* modelled by its 32-bit pattern (math.Float32bits), written as the       *)
(* two's-complement integer in -2^31 .. 2^31-1 that has the same bits.     *)
(***************************************************************************)
EXTENDS Integers, Sequences, FiniteSets, TLC

VARIABLES
    \* ---- embedding codec ----
    epc,      \* position: "start", "encoded", "decoded"
    emb,      \* the vector handed to encodeEmbedding
    emb2,     \* a second vector, encoded after emb into the same kind of buffer
    blob,     \* encodeEmbedding(emb)
    blob2,    \* encodeEmbedding(emb2)
    blobCat,  \* encodeEmbedding(emb \o emb2)
    dec,      \* decodeEmbedding(blob)
    \* ---- embed --db (embedModeDB) ----
    dpc,        \* position in embedModeDB; "fatal" after log.Fatal, "panic" after panic
    sqlMode,    \* value of --sql
    attachPair, \* value of --attach
    attached,   \* ATTACH statements executed on the session: <<alias, path>> each
    ncols,      \* number of columns of the query's result, 0 before the query ran
    rowsRead,   \* the rows rows.Next() has delivered so far
    ids,        \* var ids []string
    texts,      \* var texts []string
    dout,       \* what the command has printed on stdout
    dtrace,     \* the pipeline steps run so far, in order
    dfail,      \* the step that reported an error, "none" so far
    tableMade,  \* CREATE TABLE IF NOT EXISTS was executed
    tableRows,  \* rows (id, embedding) the command has inserted into the output table
    embedCalls, \* texts the command has sent to the embedding model
    \* ---- root and prompt commands (runRootCmd, runPromptCmd) ----
    ppc,         \* position in the command; "fatal" after log.Fatal
    pcmd,        \* "root" or "prompt"
    keyFlag,     \* value of --key
    envAPIKey,   \* value of the environment variable API_KEY
    envGeminiKey,\* value of the environment variable GEMINI_API_KEY
    sysPrompt,   \* value of --system
    stdinTTY,    \* isatty.IsTerminal(os.Stdin.Fd())
    stdinData,   \* what standard input holds
    args,        \* the command-line arguments
    key,         \* the API key the command resolved
    promptParts, \* var promptParts []genai.Part
    clientKey,   \* the key of the client created, "none" before
    psent,       \* a generate request was sent
    sentParts,   \* the parts of that request
    \* ---- template command (init, runTemplateCmd, addTemplate) ----
    tpc,       \* "exit": no process; "run": init() done, runTemplateCmd entered;
               \* "prompt": handed over to runPromptCmd; "done"; "fatal"
    tfile,     \* contents of ~/.config/gemini-cli-templates
    templates, \* var templates map[string]string of the running process
    tadds,     \* the (key, value) pairs addTemplate has written, oldest first
    useKey,    \* value of --use of the current invocation
    targs,     \* arguments of the current invocation
    tsent,     \* the template branch sent a generate request
    tparts,    \* the parts of that request
    \* ---- decodeEmbedding on stored bytes ----
    rpc,       \* "start", "decoded", "reencoded"; "panic" after panic(err)
    raw,       \* the bytes handed to decodeEmbedding
    rawDec,    \* decodeEmbedding(raw)
    rawEnc,    \* encodeEmbedding(rawDec)
    \* ---- embed --content (runEmbedCmd, embedModeContent, emitEmbedding) ----
    cpc,       \* position in the command; "fatal" after log.Fatal, "panic" after a panic
    content,   \* value of --content
    cformat,   \* value of --format
    cclient,   \* the key of the client created, "none" before
    ccalled,   \* model.EmbedContent was called
    cerr,      \* the err that EmbedContent returned is non-nil
    cres,      \* the res that EmbedContent returned: "nil", "empty" (no Embedding) or "values"
    cvalues,   \* res.Embedding.Values when cres = "values"
    cresRead,  \* res.Embedding has been evaluated
    cout       \* what emitEmbedding has written

embVars == <<epc, emb, emb2, blob, blob2, blobCat, dec>>

dbVars == <<dpc, sqlMode, attachPair, attached, ncols, rowsRead, ids, texts, dout,
            dtrace, dfail, tableMade, tableRows, embedCalls>>

prVars == <<ppc, pcmd, keyFlag, envAPIKey, envGeminiKey, sysPrompt, stdinTTY, stdinData,
            args, key, promptParts, clientKey, psent, sentParts>>

tpVars == <<tpc, tfile, templates, tadds, useKey, targs, tsent, tparts>>

rawVars == <<rpc, raw, rawDec, rawEnc>>

ctVars == <<cpc, content, cformat, cclient, ccalled, cerr, cres, cvalues, cresRead, cout>>

vars == <<embVars, dbVars, prVars, tpVars, rawVars, ctVars>>

----------------------------------------------------------------------------
(* Bounds *)

\* longest vector handed to the codec
MaxEmbLen == 2

\* longest second vector (the right-hand side of a concatenation)
MaxEmb2Len == 1

\* 32-bit patterns used as float32 components: +0, the smallest denormal,
\* 0x000000FF, 0x00000100, 0x01020304, 1.0 (0x3F800000), a NaN (0x7FC00000),
\* -0 (0x80000000) and 0xFFFFFFFF.
F32Bits == {0, 1, 255, 256, 16909060, 1065353216, 2143289344, -2147483647 - 1, -1}

Vectors(n) == UNION {[1..k -> F32Bits] : k \in 0..n}

----------------------------------------------------------------------------
(* encodeEmbedding / decodeEmbedding *)

\* binary.Write(buf, binary.LittleEndian, f): the four bytes of the bit
\* pattern of f, least significant byte first.
BigEndianBytes(f) ==
    << (f \div 16777216) % 256, (f \div 65536) % 256, (f \div 256) % 256, f % 256 >>

LittleEndianBytes(f) ==
    << f % 256, (f \div 256) % 256, (f \div 65536) % 256, (f \div 16777216) % 256 >>

\* binary.Read(buf, binary.LittleEndian, &num): the bit pattern made of the
\* next four bytes, first byte least significant.
BigEndianValue(b) ==
    b[4] + 256 * b[3] + 65536 * b[2]
      + 16777216 * (IF b[1] >= 128 THEN b[1] - 256 ELSE b[1])

LittleEndianValue(b) ==
    b[1] + 256 * b[2] + 65536 * b[3]
      + 16777216 * (IF b[4] >= 128 THEN b[4] - 256 ELSE b[4])

\* for _, f := range emb { binary.Write(buf, LittleEndian, f) }; buf.Bytes()
RECURSIVE encodeEmbedding(_)
encodeEmbedding(v) ==
    IF v = <<>> THEN <<>>
    ELSE LittleEndianBytes(Head(v)) \o encodeEmbedding(Tail(v))

\* count := buf.Len() / 4; count reads of four bytes each
RECURSIVE decodeFrom(_, _)
decodeFrom(b, count) ==
    IF count = 0 THEN <<>>
    ELSE Append(decodeFrom(b, count - 1),
                LittleEndianValue(SubSeq(b, 4 * count - 3, 4 * count)))

\* count := buf.Len() / 4
decodeCountRoundedUp(b) == (Len(b) + 3) \div 4

decodeCount(b) == Len(b) \div 4

decodeEmbedding(b) == decodeFrom(b, decodeCount(b))

\* binary.Read returns an error (io.EOF, io.ErrUnexpectedEOF), and the loop
\* panics, when fewer than four bytes are left for one of the count reads
decodePanics(b) == 4 * decodeCount(b) > Len(b)

\* the codec is not running
EmbIdle ==
    /\ epc = "idle"
    /\ emb = <<>>
    /\ emb2 = <<>>
    /\ blob = <<>>
    /\ blob2 = <<>>
    /\ blobCat = <<>>
    /\ dec = <<>>

\* decodeEmbedding is not running on stored bytes
RawIdle ==
    /\ rpc = "idle"
    /\ raw = <<>>
    /\ rawDec = <<>>
    /\ rawEnc = <<>>

\* embed --content is not running
CtIdle ==
    /\ cpc = "idle"
    /\ content = ""
    /\ cformat = ""
    /\ cclient = "none"
    /\ ccalled = FALSE
    /\ cerr = FALSE
    /\ cres = "nil"
    /\ cvalues = <<>>
    /\ cresRead = FALSE
    /\ cout = <<>>

EmbInit ==
    /\ epc = "start"
    /\ emb \in Vectors(MaxEmbLen)
    /\ emb2 \in Vectors(MaxEmb2Len)
    /\ blob = <<>>
    /\ blob2 = <<>>
    /\ blobCat = <<>>
    /\ dec = <<>>

\* the caller encodes a vector for storage (emitEmbedding, formats base64/blob)
EncodeStep ==
    /\ epc = "start"
    /\ blob' = encodeEmbedding(emb)
    /\ blob2' = encodeEmbedding(emb2)
    /\ blobCat' = encodeEmbedding(emb \o emb2)
    /\ epc' = "encoded"
    /\ UNCHANGED <<emb, emb2, dec, rawVars, ctVars, dbVars, prVars, tpVars>>

\* the stored blob is read back
DecodeStep ==
    /\ epc = "encoded"
    /\ dec' = decodeEmbedding(blob)
    /\ epc' = "decoded"
    /\ UNCHANGED <<emb, emb2, blob, blob2, blobCat, rawVars, ctVars, dbVars, prVars, tpVars>>


----------------------------------------------------------------------------
(* Strings and fmt *)

\* decimal digits of n >= 0
RECURSIVE Digits(_)
Digits(n) ==
    LET d == <<"0", "1", "2", "3", "4", "5", "6", "7", "8", "9">>[(n % 10) + 1]
    IN  IF n < 10 THEN <<d>> ELSE Append(Digits(n \div 10), d)

Itoa(n) == IF n < 0 THEN <<"-">> \o Digits(0 - n) ELSE Digits(n)

\* strings.Join(elems, sep): the elements in order, one sep between neighbours
RECURSIVE JoinNoSep(_, _)
JoinNoSep(elems, sep) ==
    IF elems = <<>> THEN <<>>
    ELSE Head(elems) \o JoinNoSep(Tail(elems), sep)

RECURSIVE Join(_, _)
Join(elems, sep) ==
    IF elems = <<>> THEN <<>>
    ELSE IF Len(elems) = 1 THEN elems[1]
    ELSE Head(elems) \o sep \o Join(Tail(elems), sep)

\* fmt.Sprintf("%v", v) of a value scanned from a row into an `any`:
\* a string prints as itself, an int64 in decimal, nil as <nil> and a []byte
\* as its bytes in decimal between brackets.
SprintV(v) ==
    CASE v.t = "string" -> v.s
      [] v.t = "int64"  -> Itoa(v.n)
      [] v.t = "nil"    -> <<"<", "n", "i", "l", ">">>
      [] v.t = "bytes"  -> <<"[">> \o Join([i \in 1..Len(v.b) |-> Itoa(v.b[i])], <<" ">>) \o <<"]">>

----------------------------------------------------------------------------
(* embed --db *)

\* most rows one query delivers
MaxRows == 2

\* most columns a query result has
MaxCols == 3

\* values a column of a row can hold: t is the dynamic type of the `any`, and
\* s, n or b its value as a string, an int64 or a []byte
StringCell == [t |-> "string", s |-> <<"a", " ", "b">>, n |-> 0, b |-> <<>>]
Int64Cell  == [t |-> "int64",  s |-> <<>>, n |-> 0 - 12, b |-> <<>>]
NilCell    == [t |-> "nil",    s |-> <<>>, n |-> 0, b |-> <<>>]
BytesCell  == [t |-> "bytes",  s |-> <<>>, n |-> 0, b |-> <<7, 10>>]

\* the values column i of a result row is drawn from
ColVals(i) ==
    IF i = 1 THEN {Int64Cell, StringCell}
    ELSE IF i = 2 THEN {StringCell, Int64Cell, NilCell, BytesCell}
    ELSE {StringCell, NilCell}

\* the rows a result of n columns can hold
Rows(n) == {r \in [1..n -> {StringCell, Int64Cell, NilCell, BytesCell}] :
               \A i \in 1..n : r[i] \in ColVals(i)}

\* values of --sql: absent, or a query
SqlModes == {"", "SELECT"}

\* values of --attach: absent, one element, a pair, three elements
AttachPairs == { <<>>, <<"al">>, <<"al", "other.db">>, <<"al", "other.db", "x">> }

DbIdle ==
    /\ dpc = "idle"
    /\ sqlMode = ""
    /\ attachPair = <<>>
    /\ attached = <<>>
    /\ ncols = 0
    /\ rowsRead = <<>>
    /\ ids = <<>>
    /\ texts = <<>>
    /\ dout = <<>>
    /\ dtrace = <<>>
    /\ dfail = "none"
    /\ tableMade = FALSE
    /\ tableRows = {}
    /\ embedCalls = {}

\* runEmbedCmd with --db set: embedModeDB is entered with the flags parsed
DbInit ==
    /\ dpc = "open"
    /\ sqlMode \in SqlModes
    /\ attachPair \in AttachPairs
    /\ attached = <<>>
    /\ ncols = 0
    /\ rowsRead = <<>>
    /\ ids = <<>>
    /\ texts = <<>>
    /\ dout = <<>>
    /\ dtrace = <<>>
    /\ dfail = "none"
    /\ tableMade = FALSE
    /\ tableRows = {}
    /\ embedCalls = {}

\* log.Fatal at step s: the process exits
Fatal(s) ==
    /\ dpc' = "fatal"
    /\ dfail' = s

\* db, err := sql.Open("sqlite3", dbPath)
OpenDB ==
    /\ dpc = "open"
    /\ dtrace' = Append(dtrace, "open")
    /\ \/ dpc' = "create" /\ UNCHANGED dfail
       \/ Fatal("open")
    /\ UNCHANGED <<sqlMode, attachPair, attached, ncols, rowsRead, ids, texts, dout,
                   tableMade, tableRows, embedCalls, embVars, rawVars, ctVars, prVars, tpVars>>

\* db.Exec(CREATE TABLE IF NOT EXISTS ...)
CreateTable ==
    /\ dpc = "create"
    /\ dtrace' = Append(dtrace, "create")
    /\ \/ dpc' = "mode" /\ tableMade' = TRUE /\ UNCHANGED dfail
       \/ Fatal("create") /\ UNCHANGED tableMade
    /\ UNCHANGED <<sqlMode, attachPair, attached, ncols, rowsRead, ids, texts, dout,
                   tableRows, embedCalls, embVars, rawVars, ctVars, prVars, tpVars>>

\* if sqlMode != "" { if len(attachPair) > 0 { if len(attachPair) != 2 ... } } else panic
CheckModeSkipBadAttach ==
    /\ dpc = "mode"
    /\ dtrace' = Append(dtrace, "mode")
    /\ IF sqlMode = "" THEN dpc' = "panic" /\ UNCHANGED dfail
       ELSE IF Len(attachPair) = 2 THEN dpc' = "attach" /\ UNCHANGED dfail
       ELSE dpc' = "query" /\ UNCHANGED dfail
    /\ UNCHANGED <<sqlMode, attachPair, attached, ncols, rowsRead, ids, texts, dout,
                   tableMade, tableRows, embedCalls, embVars, rawVars, ctVars, prVars, tpVars>>

CheckMode ==
    /\ dpc = "mode"
    /\ dtrace' = Append(dtrace, "mode")
    /\ IF sqlMode = "" THEN dpc' = "panic" /\ UNCHANGED dfail
       ELSE IF Len(attachPair) > 0
            THEN IF Len(attachPair) # 2 THEN Fatal("mode")
                 ELSE dpc' = "attach" /\ UNCHANGED dfail
            ELSE dpc' = "query" /\ UNCHANGED dfail
    /\ UNCHANGED <<sqlMode, attachPair, attached, ncols, rowsRead, ids, texts, dout,
                   tableMade, tableRows, embedCalls, embVars, rawVars, ctVars, prVars, tpVars>>

\* db.Exec("ATTACH DATABASE '<path>' as <alias>")
AttachDB ==
    /\ dpc = "attach"
    /\ dtrace' = Append(dtrace, "attach")
    /\ \/ /\ dpc' = "query"
          /\ attached' = Append(attached, <<attachPair[1], attachPair[2]>>)
          /\ UNCHANGED dfail
       \/ Fatal("attach") /\ UNCHANGED attached
    /\ UNCHANGED <<sqlMode, attachPair, ncols, rowsRead, ids, texts, dout,
                   tableMade, tableRows, embedCalls, embVars, rawVars, ctVars, prVars, tpVars>>

\* rows, err := db.Query(sqlMode)
RunQueryIgnoreErr ==
    /\ dpc = "query"
    /\ dtrace' = Append(dtrace, "query")
    /\ \/ \E n \in 1..MaxCols : dpc' = "rows" /\ ncols' = n /\ UNCHANGED dfail
       \/ dpc' = "rows" /\ ncols' = MaxCols /\ dfail' = "query"
    /\ UNCHANGED <<sqlMode, attachPair, attached, rowsRead, ids, texts, dout,
                   tableMade, tableRows, embedCalls, embVars, rawVars, ctVars, prVars, tpVars>>

RunQuery ==
    /\ dpc = "query"
    /\ dtrace' = Append(dtrace, "query")
    /\ \/ \E n \in 1..MaxCols : dpc' = "rows" /\ ncols' = n /\ UNCHANGED dfail
       \/ Fatal("query") /\ UNCHANGED ncols
    /\ UNCHANGED <<sqlMode, attachPair, attached, rowsRead, ids, texts, dout,
                   tableMade, tableRows, embedCalls, embVars, rawVars, ctVars, prVars, tpVars>>

\* var rowTexts []string; for _, v := range values[1:] { append Sprintf("%v", v) }
RowTexts(values) == [i \in 1..(Len(values) - 1) |-> SprintV(values[i + 1])]

\* one turn of `for rows.Next()` with rows.Next() true: scanRowIntoSlice, the
\* column-count test and the two appends
NextRow ==
    /\ dpc = "rows"
    /\ Len(rowsRead) < MaxRows
    /\ dtrace' = Append(dtrace, "scan")
    /\ \/ \* row.Columns() fails: panic(err)
          dpc' = "panic" /\ dfail' = "scan" /\ UNCHANGED <<rowsRead, ids, texts>>
       \/ \* row.Scan fails: log.Fatal
          Fatal("scan") /\ UNCHANGED <<rowsRead, ids, texts>>
       \/ \E values \in Rows(ncols) :
            /\ rowsRead' = Append(rowsRead, values)
            /\ IF Len(values) < 2
               THEN Fatal("scan") /\ UNCHANGED <<ids, texts>>
               ELSE /\ ids' = Append(ids, SprintV(values[1]))
                    /\ texts' = Append(texts, Join(RowTexts(values), <<" ">>))
                    /\ UNCHANGED <<dpc, dfail>>
    /\ UNCHANGED <<sqlMode, attachPair, attached, ncols, dout,
                   tableMade, tableRows, embedCalls, embVars, rawVars, ctVars, prVars, tpVars>>

\* rows.Next() returns false: the loop ends
RowsDone ==
    /\ dpc = "rows"
    /\ dpc' = "rowsErr"
    /\ UNCHANGED <<sqlMode, attachPair, attached, ncols, rowsRead, ids, texts, dout,
                   dtrace, dfail, tableMade, tableRows, embedCalls, embVars, rawVars, ctVars, prVars, tpVars>>

\* if err := rows.Err(); err != nil { log.Fatal }
RowsErr ==
    /\ dpc = "rowsErr"
    /\ dtrace' = Append(dtrace, "rowsErr")
    /\ \/ dpc' = "emit" /\ UNCHANGED dfail
       \/ Fatal("rowsErr")
    /\ UNCHANGED <<sqlMode, attachPair, attached, ncols, rowsRead, ids, texts, dout,
                   tableMade, tableRows, embedCalls, embVars, rawVars, ctVars, prVars, tpVars>>

\* fmt.Println(ids); fmt.Println(texts); the function returns ("TODO: now
\* actually embed them": no embedding is computed and nothing is inserted)
EmitLists ==
    /\ dpc = "emit"
    /\ dtrace' = Append(dtrace, "emit")
    /\ dout' = dout \o <<ids, texts>>
    /\ dpc' = "done"
    /\ UNCHANGED <<sqlMode, attachPair, attached, ncols, rowsRead, ids, texts,
                   dfail, tableMade, tableRows, embedCalls, embVars, rawVars, ctVars, prVars, tpVars>>

----------------------------------------------------------------------------
(* root and prompt commands *)

\* most command-line arguments of one invocation
MaxArgs == 2

\* texts given as arguments
ArgTexts == {"a", "b"}

ArgLists(n) == UNION {[1..k -> ArgTexts] : k \in 0..n}

PrIdle ==
    /\ ppc = "idle"
    /\ pcmd = "none"
    /\ keyFlag = ""
    /\ envAPIKey = ""
    /\ envGeminiKey = ""
    /\ sysPrompt = ""
    /\ stdinTTY = TRUE
    /\ stdinData = ""
    /\ args = <<>>
    /\ key = ""
    /\ promptParts = <<>>
    /\ clientKey = "none"
    /\ psent = FALSE
    /\ sentParts = <<>>

\* cobra has parsed the command line and calls the command's Run function
PrInit ==
    /\ ppc = "key"
    /\ pcmd \in {"root", "prompt"}
    /\ keyFlag \in {"", "flagkey"}
    /\ envAPIKey \in {"", "apikey"}
    /\ envGeminiKey \in {"", "geminikey"}
    /\ sysPrompt \in {"", "sys"}
    /\ stdinTTY \in BOOLEAN
    /\ stdinData \in {"", "in"}
    /\ (stdinTTY => stdinData = "")
    /\ args \in ArgLists(MaxArgs)
    /\ key = ""
    /\ promptParts = <<>>
    /\ clientKey = "none"
    /\ psent = FALSE
    /\ sentParts = <<>>

\* getAPIKey: the --key flag if non-empty, else os.Getenv("API_KEY") if
\* non-empty, else log.Fatal.  The result is "" when it calls log.Fatal.
getAPIKey ==
    IF keyFlag # "" THEN keyFlag
    ELSE IF envAPIKey # "" THEN envAPIKey
    ELSE ""

\* apikey.Get (package internal/apikey): the --key flag if non-empty, else
\* the environment variable GEMINI_API_KEY if non-empty, else log.Fatal.
apikeyGet ==
    IF keyFlag # "" THEN keyFlag
    ELSE IF envGeminiKey # "" THEN envGeminiKey
    ELSE ""

\* key := getAPIKey(cmd)   /   key := apikey.Get(cmd)
GetKey ==
    /\ ppc = "key"
    /\ LET k == IF pcmd = "root" THEN getAPIKey ELSE apikeyGet
       IN  IF k = "" THEN ppc' = "fatal" /\ UNCHANGED key
           ELSE ppc' = "system" /\ key' = k
    /\ UNCHANGED <<pcmd, keyFlag, envAPIKey, envGeminiKey, sysPrompt, stdinTTY, stdinData,
                   args, promptParts, clientKey, psent, sentParts, embVars, rawVars, ctVars, dbVars, tpVars>>

\* if sysPrompt != "" { promptParts = append(promptParts, genai.Text(sysPrompt)) }
AddSystem ==
    /\ ppc = "system"
    /\ promptParts' = IF sysPrompt # "" THEN Append(promptParts, sysPrompt) ELSE promptParts
    /\ ppc' = "stdin"
    /\ UNCHANGED <<pcmd, keyFlag, envAPIKey, envGeminiKey, sysPrompt, stdinTTY, stdinData,
                   args, key, clientKey, psent, sentParts, embVars, rawVars, ctVars, dbVars, tpVars>>

\* if !isatty.IsTerminal(os.Stdin.Fd()) { b, err := io.ReadAll(os.Stdin) ... }
ReadStdin ==
    /\ ppc = "stdin"
    /\ IF stdinTTY THEN ppc' = "arg" /\ UNCHANGED promptParts
       ELSE \/ ppc' = "fatal" /\ UNCHANGED promptParts
            \/ ppc' = "arg" /\ promptParts' = Append(promptParts, stdinData)
    /\ UNCHANGED <<pcmd, keyFlag, envAPIKey, envGeminiKey, sysPrompt, stdinTTY, stdinData,
                   args, key, clientKey, psent, sentParts, embVars, rawVars, ctVars, dbVars, tpVars>>

\* if len(args) >= 1 { promptParts = append(promptParts, genai.Text(args[0])) }
AddArgInFront ==
    /\ ppc = "arg"
    /\ promptParts' = IF Len(args) >= 1 THEN <<args[1]>> \o promptParts ELSE promptParts
    /\ ppc' = "check"
    /\ UNCHANGED <<pcmd, keyFlag, envAPIKey, envGeminiKey, sysPrompt, stdinTTY, stdinData,
                   args, key, clientKey, psent, sentParts, embVars, rawVars, ctVars, dbVars, tpVars>>

AddArg ==
    /\ ppc = "arg"
    /\ promptParts' = IF Len(args) >= 1 THEN Append(promptParts, args[1]) ELSE promptParts
    /\ ppc' = "check"
    /\ UNCHANGED <<pcmd, keyFlag, envAPIKey, envGeminiKey, sysPrompt, stdinTTY, stdinData,
                   args, key, clientKey, psent, sentParts, embVars, rawVars, ctVars, dbVars, tpVars>>

\* if len(promptParts) == 0 { log.Fatal(...) }
CheckParts ==
    /\ ppc = "check"
    /\ ppc' = IF Len(promptParts) = 0 THEN "fatal" ELSE "client"
    /\ UNCHANGED <<pcmd, keyFlag, envAPIKey, envGeminiKey, sysPrompt, stdinTTY, stdinData,
                   args, key, promptParts, clientKey, psent, sentParts, embVars, rawVars, ctVars, dbVars, tpVars>>

\* client, err := genai.NewClient(ctx, option.WithAPIKey(key))
NewClient ==
    /\ ppc = "client"
    /\ \/ ppc' = "generate" /\ clientKey' = key
       \/ ppc' = "fatal" /\ UNCHANGED clientKey
    /\ UNCHANGED <<pcmd, keyFlag, envAPIKey, envGeminiKey, sysPrompt, stdinTTY, stdinData,
                   args, key, promptParts, psent, sentParts, embVars, rawVars, ctVars, dbVars, tpVars>>

\* model.GenerateContentStream(ctx, promptParts...) / model.GenerateContent,
\* and the printing of the response; an error of the call is a log.Fatal
Generate ==
    /\ ppc = "generate"
    /\ psent' = TRUE
    /\ sentParts' = promptParts
    /\ ppc' \in {"done", "fatal"}
    /\ UNCHANGED <<pcmd, keyFlag, envAPIKey, envGeminiKey, sysPrompt, stdinTTY, stdinData,
                   args, key, promptParts, clientKey, embVars, rawVars, ctVars, dbVars, tpVars>>

----------------------------------------------------------------------------
(* template command *)

\* most templates added with -a
MaxAdds == 2

\* most arguments of one `template -u` invocation
MaxUseArgs == 2

\* keys given with -a
AddKeys == { <<"k">>, <<"j">>, <<" ", "k">>, <<"k", ":">> }

\* values given with -a
AddVals == { <<"%", "s", "-", "%", "s">>, <<" ", "v">>, <<"x", "\n", "k", ":", "y">> }

\* keys given with -u
UseKeys == { <<"k">>, <<"j">> }

\* arguments of `template -u`: kind is what argLooksLikeURL and
\* argLooksLikeFilename make of the argument, s its text
UseArgs ==
    { [kind |-> "text", s |-> <<"%", "s">>],
      [kind |-> "text", s |-> <<"x">>],
      [kind |-> "url",  s |-> <<"u">>],
      [kind |-> "file", s |-> <<"f">>] }

UseArgLists(n) == UNION {[1..i -> UseArgs] : i \in 0..n}

\* index of the first c in s, 0 when there is none  (strings.Index)
RECURSIVE IndexFrom(_, _, _)
IndexFrom(s, c, i) ==
    IF i > Len(s) THEN 0
    ELSE IF s[i] = c THEN i
    ELSE IndexFrom(s, c, i + 1)

Index(s, c) == IndexFrom(s, c, 1)

\* the tokens of bufio.Scanner with the default split function ScanLines:
\* the text between line feeds, a final unterminated line included when it
\* is not empty, one trailing carriage return dropped from each
DropCR(line) ==
    IF Len(line) > 0 /\ line[Len(line)] = "\r" THEN SubSeq(line, 1, Len(line) - 1)
    ELSE line

RECURSIVE ScanLines(_)
ScanLines(data) ==
    LET i == Index(data, "\n")
    IN  IF i = 0 THEN (IF data = <<>> THEN <<>> ELSE <<DropCR(data)>>)
        ELSE <<DropCR(SubSeq(data, 1, i - 1))>> \o ScanLines(SubSeq(data, i + 1, Len(data)))

\* strings.Cut(line, ":")
Cut(line) ==
    LET i == Index(line, ":")
    IN  IF i = 0 THEN [before |-> line, after |-> <<>>, found |-> FALSE]
        ELSE [before |-> SubSeq(line, 1, i - 1),
              after  |-> SubSeq(line, i + 1, Len(line)),
              found  |-> TRUE]

\* white space as strings.TrimSpace sees it (the characters the model uses)
IsSpace(c) == c \in {" ", "\t", "\n", "\r"}

RECURSIVE TrimLeft(_)
TrimLeft(str) ==
    IF str # <<>> /\ IsSpace(Head(str)) THEN TrimLeft(Tail(str)) ELSE str

RECURSIVE TrimRight(_)
TrimRight(str) ==
    IF str # <<>> /\ IsSpace(str[Len(str)]) THEN TrimRight(SubSeq(str, 1, Len(str) - 1))
    ELSE str

TrimSpace(str) == TrimRight(TrimLeft(str))

\* templates[key] = value
PutKeepFirst(m, k, v) ==
    [x \in DOMAIN m \cup {k} |-> IF x \in DOMAIN m THEN m[x] ELSE v]

Put(m, k, v) ==
    [x \in DOMAIN m \cup {k} |-> IF x = k THEN v ELSE m[x]]

\* templates[key]: the zero value "" when the key is absent
Lookup(m, k) == IF k \in DOMAIN m THEN m[k] ELSE <<>>

\* the scanner loop of init(): every line with a ":" sets a template
RECURSIVE LoadLines(_, _)
LoadLines(lines, m) ==
    IF lines = <<>> THEN m
    ELSE LET c == Cut(Head(lines))
         IN  LoadLines(Tail(lines),
                       IF c.found THEN Put(m, TrimSpace(c.before), TrimSpace(c.after))
                       ELSE m)

LoadTemplates(data) == LoadLines(ScanLines(data), <<>>)

\* index of the first "%s" in s at or after i, 0 when there is none
RECURSIVE PlaceholderFrom(_, _)
PlaceholderFrom(str, i) ==
    IF i + 1 > Len(str) THEN 0
    ELSE IF str[i] = "%" /\ str[i + 1] = "s" THEN i
    ELSE PlaceholderFrom(str, i + 1)

\* strings.Count(s, "%s"): occurrences that do not overlap
RECURSIVE CountFrom(_, _)
CountFrom(str, i) ==
    LET j == PlaceholderFrom(str, i)
    IN  IF j = 0 THEN 0 ELSE 1 + CountFrom(str, j + 2)

Count(str) == CountFrom(str, 1)

\* strings.Replace(template, "%s", text, 1)
ReplaceFirst(str, text) ==
    LET j == PlaceholderFrom(str, 1)
    IN  IF j = 0 THEN str
        ELSE SubSeq(str, 1, j - 1) \o text \o SubSeq(str, j + 2, Len(str))

\* for _, text := range textPrompt { if placeholdersCnt > 0 { Replace; cnt-- } else break }
RECURSIVE Substitute(_, _, _)
Substitute(template, textPrompt, placeholdersCnt) ==
    IF textPrompt = <<>> \/ placeholdersCnt <= 0 THEN template
    ELSE Substitute(ReplaceFirst(template, Head(textPrompt)), Tail(textPrompt),
                    placeholdersCnt - 1)

\* the arguments that are neither URLs nor file names, in order
RECURSIVE TextPrompt(_)
TextPrompt(as) ==
    IF as = <<>> THEN <<>>
    ELSE IF Head(as).kind = "text" THEN <<Head(as).s>> \o TextPrompt(Tail(as))
    ELSE TextPrompt(Tail(as))

\* the parts made of the URL and file arguments, in order
RECURSIVE MediaParts(_)
MediaParts(as) ==
    IF as = <<>> THEN <<>>
    ELSE IF Head(as).kind # "text"
         THEN <<[kind |-> Head(as).kind, s |-> Head(as).s]>> \o MediaParts(Tail(as))
    ELSE MediaParts(Tail(as))

\* the template file does not exist yet and no process runs
TpInit ==
    /\ tpc = "exit"
    /\ tfile = <<>>
    /\ templates = <<>>
    /\ tadds = <<>>
    /\ useKey = <<>>
    /\ targs = <<>>
    /\ tsent = FALSE
    /\ tparts = <<>>

\* the prompt variables while no prompt command runs
PrReset ==
    /\ ppc' = "idle"
    /\ pcmd' = "none"
    /\ keyFlag' = ""
    /\ envAPIKey' = ""
    /\ envGeminiKey' = ""
    /\ sysPrompt' = ""
    /\ stdinTTY' = TRUE
    /\ stdinData' = ""
    /\ args' = <<>>
    /\ key' = ""
    /\ promptParts' = <<>>
    /\ clientKey' = "none"
    /\ psent' = FALSE
    /\ sentParts' = <<>>

\* a process has ended (or none has run yet)
Ended ==
    \/ tpc \in {"exit", "done", "fatal"}
    \/ tpc = "prompt" /\ ppc \in {"done", "fatal"}

\* a new process starts: init() reads the template file into the (empty)
\* map, or stops when the home directory or the file cannot be opened
StartProcess ==
    /\ Ended
    /\ \/ tpc' = "run" /\ templates' = LoadTemplates(tfile)
       \/ tpc' = "fatal" /\ templates' = <<>>
    /\ useKey' = <<>>
    /\ targs' = <<>>
    /\ tsent' = FALSE
    /\ tparts' = <<>>
    /\ PrReset
    /\ UNCHANGED <<tfile, tadds, embVars, rawVars, ctVars, dbVars>>

\* runTemplateCmd with --list: the templates are printed
ListTemplates ==
    /\ tpc = "run"
    /\ tpc' = "done"
    /\ UNCHANGED <<tfile, templates, tadds, useKey, targs, tsent, tparts,
                   embVars, rawVars, ctVars, dbVars, prVars>>

\* fmt.Sprintf("%s:%s\n", key, value)
TemplateLine(k, v) == k \o <<":">> \o v \o <<"\n">>

\* runTemplateCmd with a non-empty --add k and exactly one argument v:
\* addTemplate(k, v) appends the line to the file, or stops when the file
\* cannot be opened
AddTemplate ==
    /\ tpc = "run"
    /\ Len(tadds) < MaxAdds
    /\ \E k \in AddKeys \cup {<<>>}, v \in AddVals :
         /\ k # <<>>
         /\ targs' = <<[kind |-> "text", s |-> v]>>
         /\ \/ /\ tfile' = tfile \o TemplateLine(k, v)
               /\ tadds' = Append(tadds, <<k, v>>)
               /\ tpc' = "done"
            \/ /\ tpc' = "fatal"
               /\ UNCHANGED <<tfile, tadds>>
    /\ UNCHANGED <<templates, useKey, tsent, tparts, embVars, rawVars, ctVars, dbVars, prVars>>

\* runTemplateCmd without --use: runPromptCmd(cmd, args) takes over, with a
\* fresh "system" flag whose value is ""
PromptMode ==
    /\ tpc = "run"
    /\ tpc' = "prompt"
    /\ ppc' = "key"
    /\ pcmd' = "prompt"
    /\ keyFlag' = "flagkey"
    /\ envAPIKey' = ""
    /\ envGeminiKey' = ""
    /\ sysPrompt' = ""
    /\ \E tty \in BOOLEAN : stdinTTY' = tty /\ stdinData' = IF tty THEN "" ELSE "in"
    /\ args' \in {<<>>, <<"a">>, <<"a", "b">>}
    /\ UNCHANGED <<key, promptParts, clientKey, psent, sentParts>>
    /\ UNCHANGED <<tfile, templates, tadds, useKey, targs, tsent, tparts, embVars, rawVars, ctVars, dbVars>>

\* runTemplateCmd with --use u: the URL and file arguments become parts, the
\* text arguments are inserted into the template, the result is the last
\* part, and the request is sent.  A URL or file that cannot be read, a
\* client that cannot be created, a --temp that does not parse and a failing
\* request all end in log.Fatal.
UseTemplate ==
    /\ tpc = "run"
    /\ \E u \in UseKeys, as \in UseArgLists(MaxUseArgs) :
         /\ useKey' = u
         /\ targs' = as
         /\ LET template == Lookup(templates, u)
                textPrompt == TextPrompt(as)
                text == Substitute(template, textPrompt, Count(template))
            IN  \/ /\ tpc' = "fatal"
                   /\ UNCHANGED <<tsent, tparts>>
                \/ /\ tpc' = "done"
                   /\ tsent' = TRUE
                   /\ tparts' = MediaParts(as) \o <<[kind |-> "text", s |-> text]>>
    /\ UNCHANGED <<tfile, templates, tadds, embVars, rawVars, ctVars, dbVars, prVars>>

----------------------------------------------------------------------------
(* decodeEmbedding on stored bytes *)

\* longest byte sequence handed to decodeEmbedding
MaxRawLen == 8

\* byte values of stored blobs
ByteVals == {1, 128, 255}

ByteSeqs(n) == UNION {[1..k -> ByteVals] : k \in 0..n}

\* a blob of any length is read back from storage
RawInit ==
    /\ rpc = "start"
    /\ raw \in ByteSeqs(MaxRawLen)
    /\ rawDec = <<>>
    /\ rawEnc = <<>>

\* decodeEmbedding(raw)
DecodeRaw ==
    /\ rpc = "start"
    /\ IF decodePanics(raw)
       THEN rpc' = "panic" /\ UNCHANGED rawDec
       ELSE rpc' = "decoded" /\ rawDec' = decodeEmbedding(raw)
    /\ UNCHANGED <<raw, rawEnc, embVars, ctVars, dbVars, prVars, tpVars>>

\* encodeEmbedding of the decoded vector
ReencodeRaw ==
    /\ rpc = "decoded"
    /\ rawEnc' = encodeEmbedding(rawDec)
    /\ rpc' = "reencoded"
    /\ UNCHANGED <<raw, rawDec, embVars, ctVars, dbVars, prVars, tpVars>>

----------------------------------------------------------------------------
(* embed --content *)

\* values of --format: the three formats and one that is none of them
Formats == {"json", "base64", "blob", "xml"}

\* the alphabet of base64.StdEncoding
B64Alphabet ==
    << "A", "B", "C", "D", "E", "F", "G", "H", "I", "J", "K", "L", "M", "N", "O", "P",
       "Q", "R", "S", "T", "U", "V", "W", "X", "Y", "Z", "a", "b", "c", "d", "e", "f",
       "g", "h", "i", "j", "k", "l", "m", "n", "o", "p", "q", "r", "s", "t", "u", "v",
       "w", "x", "y", "z", "0", "1", "2", "3", "4", "5", "6", "7", "8", "9", "+", "/" >>

B64Char(n) == B64Alphabet[n + 1]

\* base64.StdEncoding: three bytes make four characters, a shorter last
\* group is padded with "="
RECURSIVE Base64(_)
Base64(b) ==
    IF Len(b) = 0 THEN <<>>
    ELSE IF Len(b) = 1
    THEN << B64Char(b[1] \div 4), B64Char((b[1] % 4) * 16), "=", "=" >>
    ELSE IF Len(b) = 2
    THEN << B64Char(b[1] \div 4), B64Char((b[1] % 4) * 16 + b[2] \div 16),
            B64Char((b[2] % 16) * 4), "=" >>
    ELSE << B64Char(b[1] \div 4), B64Char((b[1] % 4) * 16 + b[2] \div 16),
            B64Char((b[2] % 16) * 4 + b[3] \div 64), B64Char(b[3] % 64) >>
           \o Base64(SubSeq(b, 4, Len(b)))

\* a NaN or an infinity: the exponent bits 23..30 are all ones
\* (encoding/json refuses these values)
NotFinite(f) == (f \div 8388608) % 256 = 255

\* runEmbedCmd is entered without --db; --key and GEMINI_API_KEY are what
\* apikey.Get will look at
CtInit ==
    /\ cpc = "dispatch"
    /\ content \in {"", "hi"}
    /\ cformat \in Formats
    /\ cclient = "none"
    /\ ccalled = FALSE
    /\ cerr = FALSE
    /\ cres = "nil"
    /\ cvalues = <<>>
    /\ cresRead = FALSE
    /\ cout = <<>>
    /\ ppc = "idle"
    /\ pcmd = "none"
    /\ keyFlag \in {"", "flagkey"}
    /\ envAPIKey = ""
    /\ envGeminiKey \in {"", "geminikey"}
    /\ sysPrompt = ""
    /\ stdinTTY = TRUE
    /\ stdinData = ""
    /\ args = <<>>
    /\ key = ""
    /\ promptParts = <<>>
    /\ clientKey = "none"
    /\ psent = FALSE
    /\ sentParts = <<>>

\* runEmbedCmd: --db is empty; --content non-empty enters embedModeContent,
\* otherwise log.Fatal("expect either --db or --content")
Dispatch ==
    /\ cpc = "dispatch"
    /\ cpc' = IF content # "" THEN "key" ELSE "fatal"
    /\ UNCHANGED <<content, cformat, cclient, ccalled, cerr, cres, cvalues, cresRead, cout,
                   embVars, rawVars, dbVars, prVars, tpVars>>

\* key := apikey.Get(cmd)
ContentGetKey ==
    /\ cpc = "key"
    /\ cpc' = IF apikeyGet = "" THEN "fatal" ELSE "client"
    /\ UNCHANGED <<content, cformat, cclient, ccalled, cerr, cres, cvalues, cresRead, cout,
                   embVars, rawVars, dbVars, prVars, tpVars>>

\* client, err := genai.NewClient(...); if err != nil { log.Fatal() }
ContentNewClient ==
    /\ cpc = "client"
    /\ \/ cpc' = "embed" /\ cclient' = apikeyGet
       \/ cpc' = "fatal" /\ UNCHANGED cclient
    /\ UNCHANGED <<content, cformat, ccalled, cerr, cres, cvalues, cresRead, cout,
                   embVars, rawVars, dbVars, prVars, tpVars>>

\* res, err := model.EmbedContent(ctx, genai.Text(content)): an embedding, a
\* response without one, or an error with a nil response.  err is not looked at.
EmbedContent ==
    /\ cpc = "embed"
    /\ ccalled' = TRUE
    /\ \/ \E v \in Vectors(MaxEmbLen) : cerr' = FALSE /\ cres' = "values" /\ cvalues' = v
       \/ cerr' = FALSE /\ cres' = "empty" /\ UNCHANGED cvalues
       \/ cerr' = TRUE /\ cres' = "nil" /\ UNCHANGED cvalues
    /\ cpc' = "read"
    /\ UNCHANGED <<content, cformat, cclient, cresRead, cout,
                   embVars, rawVars, dbVars, prVars, tpVars>>

\* if emb := res.Embedding; emb != nil { emit } else { log.Fatal }: a nil res
\* is dereferenced (run-time panic)
ReadResult ==
    /\ cpc = "read"
    /\ cresRead' = TRUE
    /\ cpc' = CASE cres = "nil" -> "panic"
                [] cres = "empty" -> "fatal"
                [] cres = "values" -> "emit"
    /\ UNCHANGED <<content, cformat, cclient, ccalled, cerr, cres, cvalues, cout,
                   embVars, rawVars, dbVars, prVars, tpVars>>

\* emitEmbedding(os.Stdout, emb.Values, format).  The JSON text of the
\* numbers is kept as the list of values it denotes.
EmitEmbedding ==
    /\ cpc = "emit"
    /\ CASE cformat = "json" ->
              IF \E i \in 1..Len(cvalues) : NotFinite(cvalues[i])
              THEN cpc' = "fatal" /\ UNCHANGED cout
              ELSE cpc' = "done" /\ cout' = <<"json", cvalues>>
         [] cformat = "base64" ->
              cpc' = "done" /\ cout' = Base64(encodeEmbedding(cvalues)) \o <<"\n">>
         [] cformat = "blob" ->
              cpc' = "done" /\ cout' = encodeEmbedding(cvalues)
         [] OTHER ->
              cpc' = "fatal" /\ UNCHANGED cout
    /\ UNCHANGED <<content, cformat, cclient, ccalled, cerr, cres, cvalues, cresRead,
                   embVars, rawVars, dbVars, prVars, tpVars>>

----------------------------------------------------------------------------
(* Specifications *)

InitEmb == EmbInit /\ DbIdle /\ PrIdle /\ TpInit /\ RawIdle /\ CtIdle
NextEmb == EncodeStep \/ DecodeStep
SpecEmb == InitEmb /\ [][NextEmb]_vars

InitDecode == RawInit /\ EmbIdle /\ DbIdle /\ PrIdle /\ TpInit /\ CtIdle
NextDecode == DecodeRaw \/ ReencodeRaw
SpecDecode == InitDecode /\ [][NextDecode]_vars

InitDB == DbInit /\ EmbIdle /\ PrIdle /\ TpInit /\ RawIdle /\ CtIdle
NextDB ==
    \/ OpenDB
    \/ CreateTable
    \/ CheckMode
    \/ AttachDB
    \/ RunQuery
    \/ NextRow
    \/ RowsDone
    \/ RowsErr
    \/ EmitLists
SpecDB == InitDB /\ [][NextDB]_vars

InitContent == CtInit /\ EmbIdle /\ RawIdle /\ DbIdle /\ TpInit
NextContent ==
    \/ Dispatch
    \/ ContentGetKey
    \/ ContentNewClient
    \/ EmbedContent
    \/ ReadResult
    \/ EmitEmbedding
SpecContent == InitContent /\ [][NextContent]_vars

InitPrompt == PrInit /\ EmbIdle /\ DbIdle /\ TpInit /\ RawIdle /\ CtIdle
NextPrompt ==
    \/ GetKey
    \/ AddSystem
    \/ ReadStdin
    \/ AddArg
    \/ CheckParts
    \/ NewClient
    \/ Generate
SpecPrompt == InitPrompt /\ [][NextPrompt]_vars

InitTemplate == TpInit /\ PrIdle /\ EmbIdle /\ DbIdle /\ RawIdle /\ CtIdle
NextTemplate ==
    \/ StartProcess
    \/ ListTemplates
    \/ AddTemplate
    \/ PromptMode
    \/ UseTemplate
    \/ (tpc = "prompt" /\ NextPrompt)
SpecTemplate == InitTemplate /\ [][NextTemplate]_vars

----------------------------------------------------------------------------
(* Claims *)

\* C1: decoding the encoding of a vector gives back a vector of the same
\* length with the same 32-bit components in the same order (the empty
\* vector included).
C1_RoundTrip ==
    epc = "decoded" =>
        /\ Len(dec) = Len(emb)
        /\ \A i \in 1..Len(emb) : dec[i] = emb[i]

C1_Witness == epc = "decoded" /\ Len(emb) = 2 /\ emb[1] = -1 /\ emb[2] = 16909060 /\ dec = emb

\* the j-th byte (0-based) of the 32-bit pattern f, computed bit by bit
\* (bit 31 is the sign of the two's-complement integer)
Bit(f, n) == IF n = 31 THEN (IF f < 0 THEN 1 ELSE 0) ELSE (f \div (2 ^ n)) % 2
ByteOf(f, j) ==
    Bit(f, 8*j) + 2 * Bit(f, 8*j + 1) + 4 * Bit(f, 8*j + 2) + 8 * Bit(f, 8*j + 3)
      + 16 * Bit(f, 8*j + 4) + 32 * Bit(f, 8*j + 5) + 64 * Bit(f, 8*j + 6)
      + 128 * Bit(f, 8*j + 7)

\* C2: the encoding of n components is exactly 4*n bytes; bytes 4i..4i+3 hold
\* component i least significant byte first; nothing else is written, so the
\* encoding of a concatenation is the concatenation of the encodings.
C2_Layout ==
    epc # "start" =>
        /\ Len(blob) = 4 * Len(emb)
        /\ \A i \in 0..(Len(emb) - 1) : \A j \in 0..3 :
              blob[4*i + j + 1] = ByteOf(emb[i + 1], j)
        /\ blobCat = blob \o blob2

C2_Witness ==
    /\ epc = "encoded"
    /\ emb = <<16909060>>
    /\ emb2 = <<256>>
    /\ blob = <<4, 3, 2, 1>>
    /\ blob2 = <<0, 1, 0, 0>>

\* C3: when embed --db in SQL mode has completed, every (id, text) pair of the
\* query has had its embedding computed and a row keyed by the id stored in
\* the output table.
C3_AllStored ==
    dpc = "done" =>
        \A i \in 1..Len(ids) :
            /\ texts[i] \in embedCalls
            /\ \E r \in tableRows : r.id = ids[i]

\* C4: a failing step of embed --db ends the command at that step: no step
\* runs after the command has ended, the failing step is the last one run, the
\* collected lists are left as they were and nothing has been emitted.
C4_AbortOnError ==
    [][ /\ dpc \notin {"fatal", "panic", "done"}
        /\ (dfail' # "none" =>
              /\ dpc' \in {"fatal", "panic"}
              /\ dtrace'[Len(dtrace')] = dfail'
              /\ dout' = <<>>
              /\ ids' = ids
              /\ texts' = texts) ]_vars

C4_Witness ==
    /\ dpc = "fatal"
    /\ dfail = "rowsErr"
    /\ Len(ids) = 2
    /\ dout = <<>>

\* the columns 2..k of a row, printed and separated by single spaces
RECURSIVE TextOfRow(_, _)
TextOfRow(row, k) ==
    IF k = 2 THEN SprintV(row[2])
    ELSE TextOfRow(row, k - 1) \o <<" ">> \o SprintV(row[k])

\* C10: while rows are processed, ids and texts are as long as the number of
\* rows read; entry i of ids is the first column of row i, entry i of texts
\* the remaining columns of row i in order with one space between
\* neighbours; a row of fewer than 2 columns aborts the command.
C10_IdsTexts ==
    /\ Len(ids) = Len(texts)
    /\ \A i \in 1..Len(rowsRead) :
          IF Len(rowsRead[i]) < 2
          THEN dpc = "fatal" /\ i = Len(rowsRead) /\ Len(ids) = i - 1
          ELSE /\ i <= Len(ids)
               /\ ids[i] = SprintV(rowsRead[i][1])
               /\ texts[i] = TextOfRow(rowsRead[i], Len(rowsRead[i]))
    /\ Len(ids) <= Len(rowsRead)

C10_Witness ==
    /\ dpc = "rows"
    /\ Len(rowsRead) = 2
    /\ ncols = 3
    /\ ids[1] = <<"-", "1", "2">>
    /\ texts[2] = <<"[", "7", " ", "1", "0", "]", " ", "<", "n", "i", "l", ">">>

\* the system prompt as a list of parts: one part when --system is set
SysParts == IF sysPrompt # "" THEN <<sysPrompt>> ELSE <<>>

\* C5: the parts sent by the prompt command are the system prompt (when set)
\* followed by every command-line argument, one part each, in the order
\* given (the contents of standard input, when it is read, may stand between
\* the system prompt and the arguments).
C5_AllArgsSent ==
    (psent /\ pcmd = "prompt") =>
        \E pre \in {<<>>, <<stdinData>>} : sentParts = SysParts \o pre \o args

C7_KeyResolution ==
    ppc # "key" =>
        IF keyFlag # "" THEN key = keyFlag /\ clientKey \in {"none", keyFlag}
        ELSE IF envGeminiKey # "" THEN key = envGeminiKey /\ clientKey \in {"none", envGeminiKey}
        ELSE ppc = "fatal" /\ clientKey = "none" /\ ~psent

\* the value most recently added under key k
RECURSIVE LastAdded(_, _)
LastAdded(adds, k) ==
    IF adds[Len(adds)][1] = k THEN adds[Len(adds)][2]
    ELSE LastAdded(SubSeq(adds, 1, Len(adds) - 1), k)

AddedKeys == {tadds[i][1] : i \in 1..Len(tadds)}

\* C8: once `template -a k v` has run, a later invocation loads the file so
\* that the template under key k is exactly v, the most recently added v
\* when k was added more than once.
C8_AddUseRoundTrip ==
    tpc = "run" =>
        \A k \in AddedKeys :
            k \in DOMAIN templates /\ templates[k] = LastAdded(tadds, k)

\* a key the file format can hold: no ":", no line break, no white space at
\* either end
CleanKey(k) ==
    /\ Index(k, ":") = 0
    /\ Index(k, "\n") = 0
    /\ TrimSpace(k) = k

\* C8 (amended): when every key added so far is clean and no value added so
\* far holds a line break, a later invocation has, under every added key k,
\* the most recently added value of k with the white space at its two ends
\* removed (so exactly that value when it has none there).
C8_AddUseRoundTripClean ==
    (/\ tpc = "run"
     /\ \A i \in 1..Len(tadds) : CleanKey(tadds[i][1]) /\ Index(tadds[i][2], "\n") = 0) =>
        \A k \in AddedKeys :
            k \in DOMAIN templates /\ templates[k] = TrimSpace(LastAdded(tadds, k))

C8_Witness ==
    /\ tpc = "run"
    /\ tadds = << <<<<"k">>, <<" ", "v">>>>, <<<<"k">>, <<"%", "s", "-", "%", "s">>>> >>
    /\ templates[<<"k">>] = <<"%", "s", "-", "%", "s">>

\* the template with its placeholders replaced in one pass from left to
\* right: placeholder number i by text number i, the inserted text not read
\* again
RECURSIVE SinglePass(_, _)
SinglePass(template, textArgs) ==
    LET j == PlaceholderFrom(template, 1)
    IN  IF j = 0 \/ textArgs = <<>> THEN template
        ELSE SubSeq(template, 1, j - 1) \o Head(textArgs)
               \o SinglePass(SubSeq(template, j + 2, Len(template)), Tail(textArgs))

\* C9: the text sent by `template -u` is the template with its k-th
\* placeholder replaced by the k-th text argument for k up to min(p, t);
\* further placeholders stay, further arguments are dropped, and an inserted
\* argument is never itself read as a placeholder.
C9_Substitution ==
    tsent =>
        tparts[Len(tparts)] =
            [kind |-> "text", s |-> SinglePass(Lookup(templates, useKey), TextPrompt(targs))]

\* position of the first run of step st in the trace, 0 when it has not run
StepAt(st) == Index(dtrace, st)

\* C11: with --attach of exactly two elements the ATTACH of (alias, path) is
\* executed on the DB handle after the output table was created and before
\* the query runs; with --attach of another non-zero length the command
\* aborts and the query never runs; without --attach nothing is attached.
C11_AttachOrdering ==
    /\ Len(attachPair) = 2 =>
          /\ StepAt("attach") # 0 =>
                /\ 0 < StepAt("create") /\ StepAt("create") < StepAt("attach")
                /\ tableMade
          /\ StepAt("query") # 0 =>
                /\ 0 < StepAt("attach") /\ StepAt("attach") < StepAt("query")
                /\ attached = << <<attachPair[1], attachPair[2]>> >>
    /\ Len(attachPair) \notin {0, 2} =>
          /\ StepAt("query") = 0
          /\ StepAt("attach") = 0
          /\ attached = <<>>
          /\ (StepAt("mode") # 0 /\ sqlMode # "") => dpc = "fatal"
    /\ Len(attachPair) = 0 =>
          /\ StepAt("attach") = 0
          /\ attached = <<>>

C11_Witness ==
    /\ dpc = "rows"
    /\ attachPair = <<"al", "other.db">>
    /\ dtrace = <<"open", "create", "mode", "attach", "query">>
    /\ attached = << <<"al", "other.db">> >>

\* C12: when creating the client or the embedding call returns an error,
\* embed --content aborts there: the embedding call is not made without a
\* client, and after an error of the call its result is never read and
\* nothing is emitted.
C12_ContentAbortOnError ==
    /\ ccalled => cclient # "none"
    /\ cerr => (~cresRead /\ cout = <<>>)

\* C13: decodeEmbedding on L bytes never fails and returns floor(L/4)
\* components, component i being the little-endian value of bytes 4i..4i+3;
\* the trailing L mod 4 bytes are ignored, so encoding the result gives the
\* bytes back without those trailing bytes, which is all of them exactly
\* when L is a multiple of 4.
C13_DecodeAnyLength ==
    /\ rpc # "panic"
    /\ rpc \in {"decoded", "reencoded"} =>
          /\ Len(rawDec) = Len(raw) \div 4
          /\ \A i \in 0..(Len(rawDec) - 1) : \A j \in 0..3 :
                ByteOf(rawDec[i + 1], j) = raw[4*i + j + 1]
    /\ rpc = "reencoded" =>
          /\ rawEnc = SubSeq(raw, 1, Len(raw) - (Len(raw) % 4))
          /\ (rawEnc = raw) <=> (Len(raw) % 4 = 0)

C13_Witness ==
    /\ rpc = "reencoded"
    /\ raw = <<1, 128, 255, 255, 128, 1>>
    /\ Len(rawDec) = 1
    /\ rawEnc = <<1, 128, 255, 255>>

====
